---- MODULE Spec2Model ----
(***************************************************************************)
(* Model of the multithreaded example broker (examples/cpp/broker.cpp):    *)
(* QueueManager, Queue, Sender, Receiver and connection_handler, which     *)
(* talk to each other only through work items posted to serial work        *)
(* queues.                                                                 *)
(*                                                                         *)
(* Two specifications are defined over the same state:                     *)
(*   SpecQ  - one Queue object whose public methods are called directly    *)
(*            (Queue-level properties of tryToSend and the cursor);        *)
(*   Spec   - the whole broker: handler callbacks and the work queues of   *)
(*            the QueueManager, the Queues and the connections.            *)
(***************************************************************************)
EXTENDS Integers, Sequences, FiniteSets, TLC

\* ------------------------------------------------------------------ bounds
\* Senders used as subscribers when a Queue is driven directly (SpecQ).
NumSubs == 3
\* Largest credit a flow carries.
MaxCredit == 2
\* queueMsg calls made on the directly driven Queue before a burst starts.
MaxQMsgs == 3

\* Sender links the peers open on the broker (Spec).
NSenders == 2
\* Receiver links the peers open on the broker (Spec).
NReceivers == 1
\* Connections the listener accepts (Spec).
NConns == 1
\* Sessions per connection that carry sender links (Spec).
NSessions == 2
\* Messages a peer delivers on one receiver link (Spec).
MaxMsgs == 2
\* on_sendable callbacks per sender link, those made before the Sender is
\* bound counting as one (Spec).
MaxSendable == 1
\* SpecCredit: on_sendable calls per bound Sender
MaxFlows == 2
\* findQueue calls made on the directly driven QueueManager (SpecQM).
MaxFinds == 4
\* Links each side of the driver pair opens (SpecD).
MaxLinks == 2
\* Calls the test makes on the connections and drivers of the pair, other
\* than process() and dispatch() (SpecD).
MaxCalls == 4
\* process() calls counted after an endpoint was closed (SpecD).
CloseRounds == 3

\* The Sender* values a directly driven Queue is called with; std::map orders
\* its keys, so the iteration order of the subscriptions is the order of ids.
Subs == 1..NumSubs

\* subscriptions_.end(): the cursor value that is not a subscription.
End == 0

\* The null pointer: queue_(0) in Sender::Sender and Receiver::Receiver.
Null == 0

\* Sender* and Receiver* values of the broker; one object per link, so a link
\* and its object share the id. senders_ and subscriptions_ iterate by id.
Senders == 1..NSenders
Receivers == 1..NReceivers
Conns == 1..NConns
Sessions == 1..NSessions

\* Addresses the peers attach to.
Addrs == {"q"}

\* Target addresses of the receiver links the peers open.
TargetAddrs == {"q", "shutdown"}

\* proton::error_condition(name, description); error_condition() is empty.
error_condition(name, description) == [name |-> name, description |-> description]
NoCondition == error_condition("", "")

\* Whether a sender link asks for a dynamic source. The peers of Spec attach
\* to named sources only.
Dynamic == {FALSE}

\* ------------------------------------------------------- std::map iteration
\* subscriptions_.begin()
Begin(subscriptions) ==
    IF DOMAIN subscriptions = {} THEN End
    ELSE CHOOSE s \in DOMAIN subscriptions : \A t \in DOMAIN subscriptions : s <= t

\* ++it for an iterator it that points at key s
Succ(subscriptions, s) ==
    LET later == {t \in DOMAIN subscriptions : t > s}
    IN IF later = {} THEN End
       ELSE CHOOSE t \in later : \A u \in later : t <= u

\* subscriptions_[s] = c  (inserts s when it is not in the map)
MapSet(subscriptions, s, c) ==
    [t \in (DOMAIN subscriptions) \cup {s} |-> IF t = s THEN c ELSE subscriptions[t]]

\* A mutant of MapErase: nothing is erased.
MapEraseNothing(subscriptions, s) == subscriptions

\* subscriptions_.erase(s)
MapErase(subscriptions, s) ==
    [t \in (DOMAIN subscriptions) \ {s} |-> subscriptions[t]]

\* ------------------------------------------------------------------- Queue
\* Queue::Queue: no messages, no subscriptions, current_ = subscriptions_.end()
NewQueue(n) ==
    [name_ |-> n, messages_ |-> <<>>, subscriptions_ |-> <<>>, current_ |-> End]

\* A mutant of SendBranch: the message is sent but the cursor stays put.
SendBranchNoAdvance(q, cur) ==
    [q EXCEPT !.messages_ = Tail(q.messages_),
              !.subscriptions_ = [q.subscriptions_ EXCEPT ![cur] = @ - 1],
              !.current_ = cur]

\* A mutant of SendBranch: the message is sent but stays at the front of the FIFO.
SendBranchKeepsMessage(q, cur) ==
    [q EXCEPT !.subscriptions_ = [q.subscriptions_ EXCEPT ![cur] = @ - 1],
              !.current_ = Succ(q.subscriptions_, cur)]

\* A mutant of SendBranch: the message is sent but the credit is not decremented.
SendBranchKeepsCredit(q, cur) ==
    [q EXCEPT !.messages_ = Tail(q.messages_),
              !.current_ = Succ(q.subscriptions_, cur)]

\* tryToSend, the branch current_->second > 0: pop_front, --credit, ++current_
SendBranch(q, cur) ==
    [q EXCEPT !.messages_ = Tail(q.messages_),
              !.subscriptions_ = [q.subscriptions_ EXCEPT ![cur] = @ - 1],
              !.current_ = Succ(q.subscriptions_, cur)]

\* tryToSend, the else branch: only ++outOfCredit; current_ is left where the
\* wrap-around test put it.
NoCreditBranch(q, cur) == [q EXCEPT !.current_ = cur]

\* The while loop of tryToSend. out is the sequence of sendMsg work items
\* scheduled so far, iters the number of iterations done.
RECURSIVE TryLoop(_, _, _, _)
TryLoop(q, outOfCredit, out, iters) ==
    IF q.messages_ = <<>> \/ ~(outOfCredit < Cardinality(DOMAIN q.subscriptions_))
    THEN [q |-> q, out |-> out, iters |-> iters]
    ELSE LET cur == IF q.current_ = End THEN Begin(q.subscriptions_) ELSE q.current_
         IN IF q.subscriptions_[cur] > 0
            THEN TryLoop(SendBranch(q, cur), outOfCredit,
                         Append(out, [op |-> "sendMsg", s |-> cur, m |-> Head(q.messages_)]),
                         iters + 1)
            ELSE TryLoop(NoCreditBranch(q, cur), outOfCredit + 1, out, iters + 1)

tryToSend(q) == TryLoop(q, 0, <<>>, 0)

\* Queue::queueMsg
queueMsg(q, m) == tryToSend([q EXCEPT !.messages_ = Append(@, m)])

\* Queue::flow
flow(q, s, c) == tryToSend([q EXCEPT !.subscriptions_ = MapSet(@, s, c)])

\* Queue::subscribe
subscribe(q, s) ==
    [q |-> [q EXCEPT !.subscriptions_ = MapSet(@, s, 0)], out |-> <<>>, iters |-> 0]

\* A mutant of UnsubscribeCursor: the cursor is not moved off the erased entry.
UnsubscribeCursorStays(q, s) == q.current_

\* Queue::unsubscribe, the cursor: if current_ is on s, ++current_
UnsubscribeCursor(q, s) ==
    IF q.current_ # End /\ q.current_ = s THEN Succ(q.subscriptions_, s) ELSE q.current_

\* Queue::unsubscribe
unsubscribe(q, s) ==
    [q |-> [q EXCEPT !.current_ = UnsubscribeCursor(q, s),
                     !.subscriptions_ = MapErase(@, s)],
     out |-> <<[op |-> "unsubscribed", s |-> s]>>,
     iters |-> 0]

\* ------------------------------------------ connection driver pair (values)
\* The two drivers of a driver_pair.
Sides == {"a", "b"}
Peer(x) == IF x = "a" THEN "b" ELSE "a"

\* error_condition::empty() and error_condition::what(): "<name>: <description>",
\* empty when both are absent.
Empty(cond) == cond.name = "" /\ cond.description = ""
What(cond) == IF Empty(cond) THEN "" ELSE cond.name \o ": " \o cond.description

\* The error a transport reports when it is aborted before the AMQP connection
\* was closed and the peer had aborted already.
Aborted(cond) == error_condition(cond.name, cond.description \o " (connection aborted)")

\* The condition substituted when disconnected() is given an empty one.
DefaultAbort == error_condition("amqp:connection:framing-error", "connection aborted")

\* The characters a namer hands out, from 'a'; 'x' is the 24th.
CharTable == <<"a", "b", "c", "d", "e", "f", "g", "h", "i", "j", "k", "l", "m", "n", "o",
               "p", "q", "r", "s", "t", "u", "v", "w", "x", "y", "z", "{", "|", "}", "~">>

\* namer na('x'), nb('b'): the position of the first name in CharTable.
FirstName == [a |-> 24, b |-> 2]

\* A mutant of link_name: the namer is not advanced.
link_nameSame(name) == [result |-> CharTable[name], name |-> name]

\* namer::link_name: return std::string(1, name++)
link_name(name) == [result |-> CharTable[name], name |-> name + 1]

\* record_handler: what the handler of one side has recorded.
NewRecordHandler ==
    [receivers |-> <<>>, senders |-> <<>>, unhandled_errors |-> <<>>,
     transport_errors |-> <<>>, connection_errors |-> <<>>]

on_receiver_open_rec(h, l) == [h EXCEPT !.receivers = Append(@, l)]
on_sender_open_rec(h, l) == [h EXCEPT !.senders = Append(@, l)]
on_error_rec(h, what) == [h EXCEPT !.unhandled_errors = Append(@, what)]

\* A mutant of on_transport_error_rec: the error is filed as a connection error.
on_transport_error_misfiled(h, what) == [h EXCEPT !.connection_errors = Append(@, what)]

on_transport_error_rec(h, what) == [h EXCEPT !.transport_errors = Append(@, what)]

\* A mutant of on_connection_error_rec: the error is recorded twice.
on_connection_error_twice(h, what) ==
    [h EXCEPT !.connection_errors = Append(Append(@, what), what)]

on_connection_error_rec(h, what) == [h EXCEPT !.connection_errors = Append(@, what)]

\* A connection_driver with its connection: local and remote endpoint state,
\* the condition given to close() (lcond) and the one the peer closed with
\* (cerr, connection().error()), the transport error, the links, the namer,
\* the frames waiting in the write buffer, the events not yet dispatched;
\* called: close() was called on the endpoint (it was not closed in reply),
\* age: the process() calls made since.
NewDriver(x) ==
    [ls |-> "uninit", rs |-> "uninit", lcond |-> NoCondition, cerr |-> NoCondition,
     aborted |-> FALSE, acond |-> NoCondition, terr |-> NoCondition, ret |-> "none",
     links |-> <<>>, name |-> FirstName[x], out |-> <<>>, events |-> <<>>,
     h |-> NewRecordHandler, called |-> FALSE, age |-> 0]

\* connection().open()
ConnOpen(d) ==
    IF d.ls = "uninit"
    THEN [d EXCEPT !.ls = "active", !.out = Append(@, [f |-> "open"])]
    ELSE d

\* link::closed(), connection::closed(), connection::active()
LinkClosed(l) == l.ls = "closed" /\ l.rs = "closed"
ConnClosed(d) == d.ls = "closed" /\ d.rs = "closed"
ConnActive(d) == d.ls = "active" /\ d.rs = "active"

HasLink(d, n) == \E i \in 1..Len(d.links) : d.links[i].name = n
LinkIndex(d, n) == CHOOSE i \in 1..Len(d.links) : d.links[i].name = n

\* The links of d that d itself opened.
Opened(d) == {i \in 1..Len(d.links) : d.links[i].mine}

\* connection().open_sender() / open_receiver() without a link name: the name
\* comes from the connection's link_namer.
OpenLink(d, role) ==
    LET n == link_name(d.name)
    IN [d EXCEPT !.name = n.name,
                 !.links = Append(@, [name |-> n.result, role |-> role, mine |-> TRUE,
                                      ls |-> "active", rs |-> "uninit",
                                      lcond |-> NoCondition, error |-> NoCondition,
                                      called |-> FALSE, age |-> 0]),
                 !.out = Append(@, [f |-> "attach", name |-> n.result, role |-> role])]

\* link.close(cond)
CloseLink(d, i, cond) ==
    [d EXCEPT !.links[i].ls = "closed", !.links[i].lcond = cond,
              !.links[i].called = TRUE,
              !.out = Append(@, [f |-> "detach", name |-> d.links[i].name, cond |-> cond])]

\* connection.close(cond)
CloseConn(d, cond) ==
    [d EXCEPT !.ls = "closed", !.lcond = cond, !.called = TRUE,
              !.out = Append(@, [f |-> "close", cond |-> cond])]

\* ------------------------------------------------------------- url (values)
\* A URL string is held as the sequence of its pieces: the delimiter characters
\* ":", "/" and "@" one by one, and the runs of other characters between them.
RECURSIVE Join(_)
Join(s) == IF s = <<>> THEN "" ELSE Head(s) \o Join(Tail(s))

\* The position of the first piece of s equal to tok, 0 when there is none.
IndexOf(s, tok) ==
    IF \E i \in 1..Len(s) : s[i] = tok
    THEN CHOOSE i \in 1..Len(s) : s[i] = tok /\ \A j \in 1..(i - 1) : s[j] # tok
    ELSE 0

\* The position of the first "://" in s, 0 when there is none.
SchemeEnd(s) ==
    LET At(i) == s[i] = ":" /\ s[i + 1] = "/" /\ s[i + 2] = "/"
    IN IF \E i \in 1..(Len(s) - 2) : At(i)
       THEN CHOOSE i \in 1..(Len(s) - 2) : At(i) /\ \A j \in 1..(i - 1) : ~At(j)
       ELSE 0

Before(s, i) == IF i = 0 THEN s ELSE SubSeq(s, 1, i - 1)
After(s, i) == IF i = 0 THEN <<>> ELSE SubSeq(s, i + 1, Len(s))

\* The six accessors of a url.
UrlOf(scheme, user, password, host, port, path) ==
    [scheme |-> scheme, user |-> user, password |-> password, host |-> host,
     port |-> port, path |-> path]

\* url::defaults(): scheme "amqp", host "localhost", port the scheme's name.
url_defaults(u) ==
    LET scheme == IF u.scheme = "" THEN "amqp" ELSE u.scheme
    IN [u EXCEPT !.scheme = scheme,
                 !.host = IF u.host = "" THEN "localhost" ELSE @,
                 !.port = IF u.port = "" THEN scheme ELSE @]

\* url(str, defaults): [scheme://][user[:password]@]host[:port][/path], a
\* leading "//" accepted. The scheme ends at the first "://", the path starts
\* after the first "/" that follows, the user information ends at "@", and
\* ":" splits user from password and host from port.
url_parse(s, defaults) ==
    LET se == SchemeEnd(s)
        scheme == IF se = 0 THEN "" ELSE Join(SubSeq(s, 1, se - 1))
        r1 == IF se # 0 THEN SubSeq(s, se + 3, Len(s))
              ELSE IF Len(s) >= 2 /\ s[1] = "/" /\ s[2] = "/" THEN SubSeq(s, 3, Len(s))
              ELSE s
        sl == IndexOf(r1, "/")
        path == Join(After(r1, sl))
        r2 == Before(r1, sl)
        at == IndexOf(r2, "@")
        info == IF at = 0 THEN <<>> ELSE Before(r2, at)
        r3 == IF at = 0 THEN r2 ELSE After(r2, at)
        ic == IndexOf(info, ":")
        hc == IndexOf(r3, ":")
        u == UrlOf(scheme, Join(Before(info, ic)), Join(After(info, ic)),
                   Join(Before(r3, hc)), Join(After(r3, hc)), path)
    IN IF defaults THEN url_defaults(u) ELSE u

\* No url has been made.
\* The parts a URL string is written from: an absent part is "", slashes says
\* that a string without a scheme starts with "//", colon that the port
\* delimiter is written.
Parts(scheme, slashes, user, password, host, colon, port, path) ==
    [scheme |-> scheme, slashes |-> slashes, user |-> user, password |-> password,
     host |-> host, colon |-> colon, port |-> port, path |-> path]

\* The string [scheme://][user[:password]@]host[:port][/path] of the parts c.
UrlString(c) ==
    (IF c.scheme # "" THEN <<c.scheme, ":", "/", "/">>
     ELSE IF c.slashes THEN <<"/", "/">> ELSE <<>>)
    \o (IF c.user = "" THEN <<>>
        ELSE <<c.user>> \o (IF c.password = "" THEN <<>> ELSE <<":", c.password>>) \o <<"@">>)
    \o (IF c.host = "" THEN <<>> ELSE <<c.host>>)
    \o (IF c.colon THEN <<":">> \o (IF c.port = "" THEN <<>> ELSE <<c.port>>) ELSE <<>>)
    \o (IF c.path = "" THEN <<>> ELSE <<"/", c.path>>)

\* CHECK_URL(url(str, defaults), scheme, user, pwd, host, port, path)
CHECK_URL(str, defaults, scheme, user, pwd, host, port, path) ==
    [str |-> str, defaults |-> defaults, u |-> UrlOf(scheme, user, pwd, host, port, path)]

\* A mutant of parse_URL: "amqps://host" is expected to have port "amqp".
parse_URL_port_amqp ==
    {CHECK_URL(<<"amqps", ":", "/", "/", "host">>, TRUE, "amqps", "", "", "host", "amqp", "")}

\* TEST_CASE("parse URL"): the strings parsed and the accessors expected.
parse_URL ==
    {CHECK_URL(<<"amqp", ":", "/", "/", "foo", ":", "xyz", "/", "path">>, TRUE,
               "amqp", "", "", "foo", "xyz", "path"),
     CHECK_URL(<<"amqp", ":", "/", "/", "username", ":", "password", "@", "host", ":",
                 "1234", "/", "path">>, TRUE,
               "amqp", "username", "password", "host", "1234", "path"),
     CHECK_URL(<<"host", ":", "1234">>, TRUE, "amqp", "", "", "host", "1234", ""),
     CHECK_URL(<<"host">>, TRUE, "amqp", "", "", "host", "amqp", ""),
     CHECK_URL(<<"host", "/", "path">>, TRUE, "amqp", "", "", "host", "amqp", "path"),
     CHECK_URL(<<"amqps", ":", "/", "/", "host">>, TRUE, "amqps", "", "", "host", "amqps", ""),
     CHECK_URL(<<"/", "path">>, TRUE, "amqp", "", "", "localhost", "amqp", "path"),
     CHECK_URL(<<>>, TRUE, "amqp", "", "", "localhost", "amqp", ""),
     CHECK_URL(<<":", "1234">>, TRUE, "amqp", "", "", "localhost", "1234", ""),
     CHECK_URL(<<"/", "/", "username", ":", "password", "@", "host", ":", "1234", "/",
                 "path">>, TRUE,
               "amqp", "username", "password", "host", "1234", "path"),
     CHECK_URL(<<"/", "/", "host", ":", "port", "/", "path">>, TRUE,
               "amqp", "", "", "host", "port", "path"),
     CHECK_URL(<<"/", "/", "host">>, TRUE, "amqp", "", "", "host", "amqp", ""),
     CHECK_URL(<<"/", "/", ":", "port">>, TRUE, "amqp", "", "", "localhost", "port", ""),
     CHECK_URL(<<"/", "/", ":", "0">>, TRUE, "amqp", "", "", "localhost", "0", ""),
     CHECK_URL(<<>>, FALSE, "", "", "", "", "", ""),
     CHECK_URL(<<"/", "/", ":">>, FALSE, "", "", "", "", "", ""),
     CHECK_URL(<<"/", "/", ":", "0">>, FALSE, "", "", "", "", "0", ""),
     CHECK_URL(<<"/", "/", "h", ":">>, FALSE, "", "", "", "h", "", "")}

\* No url has been made.
NoUrl == [str |-> <<>>, defaults |-> TRUE, made |-> FALSE,
          from |-> Parts("", FALSE, "", "", "", FALSE, "", ""),
          u |-> UrlOf("", "", "", "", "", "")]

\* ------------------------------------------------------------------- state
VARIABLES
    queue,      \* the Queue objects: pointer -> [name_, messages_, subscriptions_, current_]
    qwork,      \* Queue::work_queue_ of each Queue: FIFO of work items
    sched,      \* per Queue, the (Sender, message) pairs it has scheduled sendMsg for, in order
    queues_,    \* QueueManager::queues_: name -> Queue pointer
    next_id_,   \* QueueManager::next_id_
    qmwork,     \* QueueManager::work_queue_
    sender,     \* the Sender objects
    receiver,   \* the Receiver objects
    handler,    \* the connection_handler of each connection
    cwork,      \* the work queue of each connection (Sender::work_queue_, Receiver::work_queue_)
    wire,       \* per Sender, the messages sendMsg has written to its link
    env,        \* the peers and the container: callbacks made so far, sessions ended,
                \* whether container.stop() has been called and with what
    hist,       \* per Sender, what has been posted and processed for it
    nmsg,       \* SpecQ: number of queueMsg calls made so far (the next message is nmsg + 1)
    burst,      \* SpecQ: the run of successive queueMsg calls being measured
    cnt,        \* SpecQ: sendMsg work items scheduled per Sender since the burst began
    last,       \* SpecQ: the last call made on the Queue, the cursor before it, the work
                \* it scheduled and, per Sender, the credit granted and used since its flow
    reqs,       \* SpecQM: the names findQueue has been called with, in order
    drv,        \* SpecD: the driver_pair: drivers a and b and the byte streams ab, ba
    url         \* SpecURL: the string and flag given to url(), and the url made of them

brokerVars == <<qwork, sched, queues_, next_id_, qmwork, sender, receiver, handler,
                cwork, wire, env, hist>>
otherVars == <<reqs, drv, url>>
harnessVars == <<nmsg, burst, cnt, last, otherVars>>
vars == <<queue, brokerVars, harnessVars>>

\* new Queue(...): Queues are never destroyed, so the n-th allocation is object n.
NewPtr(heap) == Len(heap) + 1

\* The state of the broker's own objects after broker::broker.
InitBroker ==
    /\ qwork = <<>>
    /\ sched = <<>>
    /\ queues_ = <<>>
    /\ next_id_ = 0
    /\ qmwork = <<>>
    /\ sender = [s \in Senders |->
                    [st |-> "none", conn |-> Null, session |-> Null, queue_ |-> Null,
                     queue_name_ |-> "", pending_credit_ |-> 0]]
    /\ receiver = [r \in Receivers |->
                    [st |-> "none", conn |-> Null, queue_ |-> Null, messages_ |-> <<>>]]
    /\ handler = [c \in Conns |-> [st |-> "none", senders_ |-> {}, receivers_ |-> {}]]
    /\ cwork = [c \in Conns |-> <<>>]
    /\ wire = [s \in Senders |-> <<>>]
    /\ env = [sendable |-> [s \in Senders |-> 0],
              credit |-> [s \in Senders |-> 0],
              delivered |-> [r \in Receivers |-> 0],
              ended |-> [c \in Conns |-> {}],
              opens |-> [a \in TargetAddrs |-> 0],
              stopped |-> [on |-> FALSE, cond |-> NoCondition]]
    /\ hist = [s \in Senders |->
                  [qlog |-> <<>>, firstFlow |-> 0, boundFlows |-> 0, lastUnbound |-> 0,
                   backlog |-> 0]]

InitHarness ==
    /\ nmsg = 0
    /\ burst = [on |-> FALSE, K |-> 0, N |-> 0, calls |-> 0, start |-> End]
    /\ cnt = [s \in Subs |-> 0]
    /\ last = [op |-> "none", s |-> End, cur |-> End, out |-> <<>>,
               granted |-> [s \in Subs |-> 0], sent |-> [s \in Subs |-> 0],
               scheduled |-> <<>>]
    /\ reqs = <<>>
    /\ drv = [a |-> ConnOpen(NewDriver("a")), b |-> NewDriver("b"), ab |-> <<>>, ba |-> <<>>,
              calls |-> 0]

\* ---------------------------------------------- SpecQ: one Queue, called directly
\* The Queue under test.
TheQ == NewPtr(<<>>)

InitQ ==
    /\ queue = <<NewQueue("q")>>
    /\ InitHarness
    /\ url = NoUrl
    /\ InitBroker

\* The number of sendMsg items for Sender s in the scheduled work out.
RECURSIVE CountFor(_, _)
CountFor(out, s) ==
    IF out = <<>> THEN 0
    ELSE (IF Head(out).op = "sendMsg" /\ Head(out).s = s THEN 1 ELSE 0) + CountFor(Tail(out), s)

\* The record of a call op on the Queue, for Sender s (End for queueMsg), with
\* credit c (flow), that scheduled the work out: per Sender, granted is the
\* credit its latest flow set (0 after subscribe or unsubscribe) and sent the
\* number of sendMsg items scheduled to it since; scheduled is every
\* (Sender, message) pair a sendMsg was scheduled for, in order.
Called(op, s, c, out) ==
    [op |-> op, s |-> s, cur |-> queue[TheQ].current_, out |-> out,
     scheduled |-> LET sends == SelectSeq(out, LAMBDA w : w.op = "sendMsg")
                   IN last.scheduled \o
                      [i \in 1..Len(sends) |-> <<sends[i].s, sends[i].m>>],
     granted |-> [x \in Subs |->
                     IF x # s THEN last.granted[x] ELSE IF op = "flow" THEN c ELSE 0],
     sent |-> [x \in Subs |->
                  (IF x = s THEN 0 ELSE last.sent[x]) + CountFor(out, x)]]

Call_queueMsg ==
    /\ ~burst.on
    /\ nmsg < MaxQMsgs
    /\ queue' = [queue EXCEPT ![TheQ] = queueMsg(@, nmsg + 1).q]
    /\ nmsg' = nmsg + 1
    /\ last' = Called("queueMsg", End, 0, queueMsg(queue[TheQ], nmsg + 1).out)
    /\ UNCHANGED <<burst, cnt, brokerVars, otherVars>>

Call_flow ==
    /\ ~burst.on
    /\ \E s \in Subs, c \in 1..MaxCredit :
          /\ queue' = [queue EXCEPT ![TheQ] = flow(@, s, c).q]
          /\ last' = Called("flow", s, c, flow(queue[TheQ], s, c).out)
    /\ UNCHANGED <<nmsg, burst, cnt, brokerVars, otherVars>>

Call_subscribe ==
    /\ ~burst.on
    /\ \E s \in Subs :
          /\ queue' = [queue EXCEPT ![TheQ] = subscribe(@, s).q]
          /\ last' = Called("subscribe", s, 0, subscribe(queue[TheQ], s).out)
    /\ UNCHANGED <<nmsg, burst, cnt, brokerVars, otherVars>>

Call_unsubscribe ==
    /\ ~burst.on
    /\ \E s \in Subs :
          /\ queue' = [queue EXCEPT ![TheQ] = unsubscribe(@, s).q]
          /\ last' = Called("unsubscribe", s, 0, unsubscribe(queue[TheQ], s).out)
    /\ UNCHANGED <<nmsg, burst, cnt, brokerVars, otherVars>>

\* Start measuring: the FIFO is empty and every subscription holds credit >= K.
BeginBurst ==
    /\ ~burst.on
    /\ queue[TheQ].messages_ = <<>>
    /\ DOMAIN queue[TheQ].subscriptions_ # {}
    /\ \E K \in 1..MaxCredit :
          /\ \A s \in DOMAIN queue[TheQ].subscriptions_ : queue[TheQ].subscriptions_[s] >= K
          /\ burst' = [on |-> TRUE, K |-> K,
                       N |-> Cardinality(DOMAIN queue[TheQ].subscriptions_),
                       calls |-> 0, start |-> queue[TheQ].current_]
    /\ UNCHANGED <<queue, nmsg, cnt, last, brokerVars, otherVars>>

\* One of the K*N successive queueMsg calls.
Burst_queueMsg ==
    /\ burst.on
    /\ burst.calls < burst.K * burst.N
    /\ LET r == queueMsg(queue[TheQ], nmsg + 1)
       IN /\ queue' = [queue EXCEPT ![TheQ] = r.q]
          /\ cnt' = [s \in Subs |-> cnt[s] + CountFor(r.out, s)]
          /\ last' = Called("queueMsg", End, 0, r.out)
    /\ nmsg' = nmsg + 1
    /\ burst' = [burst EXCEPT !.calls = @ + 1]
    /\ UNCHANGED <<brokerVars, otherVars>>

NextQ ==
    \/ Call_queueMsg
    \/ Call_flow
    \/ Call_subscribe
    \/ Call_unsubscribe
    \/ BeginBurst
    \/ Burst_queueMsg

SpecQ == InitQ /\ [][NextQ]_vars

\* ------------------------------------------------- Spec: the whole broker
\* schedule_work(target, ...): append work items to the target's work queue.
Post(wq, target, items) == [wq EXCEPT ![target] = @ \o items]

\* The elements of S in the iteration order of a std::map keyed by them.
RECURSIVE InOrder(_)
InOrder(S) ==
    IF S = {} THEN <<>>
    ELSE LET m == CHOOSE x \in S : \A y \in S : x <= y
         IN <<m>> \o InOrder(S \ {m})

\* A mutant of DynName: the index is left out of the name.
DynNameNoIndex(n) == "_dynamic_"

\* The name findQueue gives a dynamic queue: os << "_dynamic_" << next_id_
DynName(n) == "_dynamic_" \o ToString(n)

\* --- work posted by the endpoints

\* A mutant of BoundTo: Sender::boundQueue forgets to record the Queue.
BoundToNothing(q) == Null

\* Sender::boundQueue: queue_ = q
BoundTo(q) == q

\* A mutant of BoundQueueWork: the pending credit is never handed over.
BoundQueueWorkNoFlow(s, pending) == <<[op |-> "subscribe", s |-> s]>>

\* A mutant of BoundQueueWork: the flow is scheduled before the subscribe.
BoundQueueWorkFlowFirst(s, pending) ==
    (IF pending > 0 THEN <<[op |-> "flow", s |-> s, c |-> pending]>> ELSE <<>>)
    \o <<[op |-> "subscribe", s |-> s]>>

\* Sender::boundQueue: the work it schedules on the Queue: subscribe, then
\* flow(pending_credit_) if pending_credit_ > 0.
BoundQueueWork(s, pending) ==
    <<[op |-> "subscribe", s |-> s]>>
    \o (IF pending > 0 THEN <<[op |-> "flow", s |-> s, c |-> pending]>> ELSE <<>>)

\* A mutant of QueueMsgsWork: only the front message is posted (if, not while).
QueueMsgsWorkFrontOnly(messages) ==
    IF messages = <<>> THEN <<>> ELSE <<[op |-> "queueMsg", m |-> Head(messages)]>>

\* A mutant of QueueMsgsWork: the local FIFO is drained from the back.
QueueMsgsWorkReversed(messages) ==
    [i \in 1..Len(messages) |-> [op |-> "queueMsg", m |-> messages[Len(messages) + 1 - i]]]

\* Receiver::queueMsgs: one queueMsg per buffered message, front first.
QueueMsgsWork(messages) ==
    [i \in 1..Len(messages) |-> [op |-> "queueMsg", m |-> messages[i]]]

\* The loops of on_session_close and on_transport_close over the Senders ss:
\* schedule Queue::unsubscribe for each one that is bound.
RECURSIVE PostUnsubscribes(_, _)
PostUnsubscribes(qw, ss) ==
    IF ss = <<>> THEN qw
    ELSE LET s == Head(ss)
         IN PostUnsubscribes(
                IF sender[s].queue_ # Null
                THEN Post(qw, sender[s].queue_, <<[op |-> "unsubscribe", s |-> s]>>)
                ELSE qw,
                Tail(ss))

\* container.stop() has not been called. Once it has, the container closes
\* what is open and run() returns: the model ends there.
Running == ~env.stopped.on

\* A mutant of IsShutdown: no address is special.
IsShutdownNever(qname) == FALSE

\* on_receiver_open: qname == "shutdown"
IsShutdown(qname) == qname = "shutdown"

\* --- connection_handler callbacks (run in the connection's context)

\* broker::listener::on_accept: a new connection_handler. Connections are
\* accepted in the order of their ids.
on_accept ==
    /\ Running
    /\ \E c \in Conns :
          /\ handler[c].st = "none"
          /\ \A d \in Conns : d < c => handler[d].st # "none"
          /\ handler' = [handler EXCEPT ![c].st = "alive"]
    /\ UNCHANGED <<queue, qwork, sched, queues_, next_id_, qmwork, sender, receiver,
                   cwork, wire, env, hist, harnessVars>>

\* Session ss of connection c has carried a sender link. A peer's sessions are
\* numbered in the order in which they first carry one.
SessionBegun(c, ss) ==
    \E s \in Senders : sender[s].st # "none" /\ sender[s].conn = c /\ sender[s].session = ss

on_sender_open ==
    /\ Running
    /\ \E c \in Conns, s \in Senders, ss \in Sessions, dynamic \in Dynamic, address \in Addrs :
          /\ handler[c].st = "alive"
          /\ sender[s].st = "none"
          /\ ss \notin env.ended[c]
          /\ \A lower \in Sessions : lower < ss => SessionBegun(c, lower)
          /\ sender' = [sender EXCEPT ![s] =
                           [st |-> "live", conn |-> c, session |-> ss, queue_ |-> Null,
                            queue_name_ |-> "", pending_credit_ |-> 0]]
          /\ handler' = [handler EXCEPT ![c].senders_ = @ \cup {s}]
          /\ qmwork' = Append(qmwork, [op |-> "findQueueSender", s |-> s,
                                        qn |-> IF dynamic THEN "" ELSE address])
    /\ UNCHANGED <<queue, qwork, sched, queues_, next_id_, receiver, cwork, wire, env,
                   hist, harnessVars>>

on_sendable_upto(limit) ==
    /\ Running
    /\ \E s \in Senders, credit \in 1..MaxCredit :
          /\ sender[s].st # "none"
          /\ handler[sender[s].conn].st = "alive"
          /\ s \in handler[sender[s].conn].senders_
          /\ sender[s].queue_ # Null => env.sendable[s] < limit
          /\ credit >= env.credit[s]
          /\ env' = [env EXCEPT !.sendable[s] =
                         IF sender[s].queue_ # Null THEN @ + 1 ELSE 1,
                                !.credit[s] = credit]
          /\ IF sender[s].queue_ # Null
             THEN /\ qwork' = Post(qwork, sender[s].queue_,
                                   <<[op |-> "flow", s |-> s, c |-> credit]>>)
                  /\ sender' = sender
                  /\ hist' = hist
             ELSE /\ sender' = [sender EXCEPT ![s].pending_credit_ = credit]
                  /\ qwork' = qwork
                  /\ hist' = [hist EXCEPT ![s].lastUnbound = credit]
    /\ UNCHANGED <<queue, sched, queues_, next_id_, qmwork, receiver, handler, cwork,
                   wire, harnessVars>>

on_sendable == on_sendable_upto(MaxSendable)

on_receiver_open ==
    /\ Running
    /\ \E c \in Conns, qname \in TargetAddrs :
          /\ handler[c].st = "alive"
          /\ IF IsShutdown(qname)
             THEN /\ env' = [env EXCEPT !.opens[qname] = @ + 1,
                                        !.stopped = [on |-> TRUE,
                                                     cond |-> error_condition("shutdown", "stop broker")]]
                  /\ UNCHANGED <<receiver, handler, qmwork>>
             ELSE \E r \in Receivers :
                  /\ receiver[r].st = "none"
                  /\ env' = [env EXCEPT !.opens[qname] = @ + 1]
                  /\ receiver' = [receiver EXCEPT ![r] =
                                     [st |-> "live", conn |-> c, queue_ |-> Null,
                                      messages_ |-> <<>>]]
                  /\ handler' = [handler EXCEPT ![c].receivers_ = @ \cup {r}]
                  /\ qmwork' = Append(qmwork, [op |-> "findQueueReceiver", r |-> r,
                                                qn |-> qname])
    /\ UNCHANGED <<queue, qwork, sched, queues_, next_id_, sender, cwork, wire,
                   hist, harnessVars>>

\* The message is <<receiver link, its number on that link>>.
on_message ==
    /\ Running
    /\ \E r \in Receivers :
          /\ receiver[r].st # "none"
          /\ handler[receiver[r].conn].st = "alive"
          /\ r \in handler[receiver[r].conn].receivers_
          /\ env.delivered[r] < MaxMsgs
          /\ env' = [env EXCEPT !.delivered[r] = @ + 1]
          /\ LET msgs == Append(receiver[r].messages_, <<r, env.delivered[r] + 1>>)
             IN IF receiver[r].queue_ # Null
                THEN /\ qwork' = Post(qwork, receiver[r].queue_, QueueMsgsWork(msgs))
                     /\ receiver' = [receiver EXCEPT ![r].messages_ = <<>>]
                ELSE /\ receiver' = [receiver EXCEPT ![r].messages_ = msgs]
                     /\ qwork' = qwork
    /\ UNCHANGED <<queue, sched, queues_, next_id_, qmwork, sender, handler, cwork,
                   wire, hist, harnessVars>>

on_session_close ==
    /\ Running
    /\ \E c \in Conns, ss \in Sessions :
          /\ handler[c].st = "alive"
          /\ ss \notin env.ended[c]
          /\ SessionBegun(c, ss)
          /\ LET closing == {s \in handler[c].senders_ : sender[s].session = ss}
             IN /\ qwork' = PostUnsubscribes(qwork, InOrder(closing))
                /\ handler' = [handler EXCEPT ![c].senders_ = @ \ closing]
          /\ env' = [env EXCEPT !.ended[c] = @ \cup {ss}]
    /\ UNCHANGED <<queue, sched, queues_, next_id_, qmwork, sender, receiver, cwork,
                   wire, hist, harnessVars>>

\* A mutant of on_sender_close: the Sender is not erased from senders_.
on_sender_close_keeps ==
    /\ Running
    /\ \E s \in Senders :
          /\ sender[s].st # "none"
          /\ handler[sender[s].conn].st = "alive"
          /\ s \in handler[sender[s].conn].senders_
          /\ qwork' = PostUnsubscribes(qwork, <<s>>)
    /\ UNCHANGED <<queue, sched, queues_, next_id_, qmwork, sender, receiver, handler,
                   cwork, wire, env, hist, harnessVars>>

on_sender_close ==
    /\ Running
    /\ \E s \in Senders :
          /\ sender[s].st # "none"
          /\ handler[sender[s].conn].st = "alive"
          /\ s \in handler[sender[s].conn].senders_
          /\ qwork' = PostUnsubscribes(qwork, <<s>>)
          /\ handler' = [handler EXCEPT ![sender[s].conn].senders_ = @ \ {s}]
    /\ UNCHANGED <<queue, sched, queues_, next_id_, qmwork, sender, receiver, cwork,
                   wire, env, hist, harnessVars>>

on_transport_close ==
    /\ Running
    /\ \E c \in Conns :
          /\ handler[c].st = "alive"
          /\ qwork' = PostUnsubscribes(qwork, InOrder(handler[c].senders_))
          /\ handler' = [handler EXCEPT ![c] =
                            [st |-> "deleted", senders_ |-> {}, receivers_ |-> {}]]
    /\ UNCHANGED <<queue, sched, queues_, next_id_, qmwork, sender, receiver, cwork,
                   wire, env, hist, harnessVars>>

\* --- QueueManager work

\* A mutant of findQueue: the lookup is skipped, a Queue is always constructed
\* and stored under the name.
findQueueAlwaysNew(c, requested, bound) ==
    LET dynamic == requested = ""
        qn == IF dynamic THEN DynName(next_id_) ELSE requested
        q == NewPtr(queue)
    IN /\ next_id_' = IF dynamic THEN next_id_ + 1 ELSE next_id_
       /\ queues_' = MapSet(queues_, qn, q)
       /\ queue' = Append(queue, NewQueue(qn))
       /\ qwork' = Append(qwork, <<>>)
       /\ sched' = Append(sched, <<>>)
       /\ cwork' = Post(cwork, c, <<[op |-> bound.op, x |-> bound.x, q |-> q, qn |-> qn]>>)

\* QueueManager::findQueue for the endpoint on connection c; bound is the
\* boundQueue work item without its Queue and name.
findQueue(c, requested, bound) ==
    LET dynamic == requested = ""
        qn == IF dynamic THEN DynName(next_id_) ELSE requested
        found == qn \in DOMAIN queues_
        q == IF found THEN queues_[qn] ELSE NewPtr(queue)
    IN /\ next_id_' = IF dynamic THEN next_id_ + 1 ELSE next_id_
       /\ queues_' = IF found THEN queues_ ELSE MapSet(queues_, qn, q)
       /\ queue' = IF found THEN queue ELSE Append(queue, NewQueue(qn))
       /\ qwork' = IF found THEN qwork ELSE Append(qwork, <<>>)
       /\ sched' = IF found THEN sched ELSE Append(sched, <<>>)
       /\ cwork' = Post(cwork, c, <<[op |-> bound.op, x |-> bound.x, q |-> q, qn |-> qn]>>)

QueueManager_findQueueSender ==
    /\ Running
    /\ qmwork # <<>>
    /\ Head(qmwork).op = "findQueueSender"
    /\ qmwork' = Tail(qmwork)
    /\ findQueue(sender[Head(qmwork).s].conn, Head(qmwork).qn,
                 [op |-> "Sender::boundQueue", x |-> Head(qmwork).s])
    /\ UNCHANGED <<sender, receiver, handler, wire, env, hist, harnessVars>>

QueueManager_findQueueReceiver ==
    /\ Running
    /\ qmwork # <<>>
    /\ Head(qmwork).op = "findQueueReceiver"
    /\ qmwork' = Tail(qmwork)
    /\ findQueue(receiver[Head(qmwork).r].conn, Head(qmwork).qn,
                 [op |-> "Receiver::boundQueue", x |-> Head(qmwork).r])
    /\ UNCHANGED <<sender, receiver, handler, wire, env, hist, harnessVars>>

\* --- Sender and Receiver work (on the work queue of their connection)

Sender_boundQueue ==
    /\ Running
    /\ \E c \in Conns :
          /\ cwork[c] # <<>>
          /\ Head(cwork[c]).op = "Sender::boundQueue"
          /\ LET w == Head(cwork[c])
                 s == w.x
             IN /\ sender' = [sender EXCEPT ![s].queue_ = BoundTo(w.q),
                                            ![s].queue_name_ = w.qn]
                /\ qwork' = Post(qwork, w.q, BoundQueueWork(s, sender[s].pending_credit_))
                /\ hist' = [hist EXCEPT ![s].boundFlows =
                               @ + (IF sender[s].pending_credit_ > 0 THEN 1 ELSE 0)]
          /\ cwork' = [cwork EXCEPT ![c] = Tail(@)]
    /\ UNCHANGED <<queue, sched, queues_, next_id_, qmwork, receiver, handler, wire,
                   env, harnessVars>>

Sender_sendMsg ==
    /\ Running
    /\ \E c \in Conns :
          /\ cwork[c] # <<>>
          /\ Head(cwork[c]).op = "sendMsg"
          /\ wire' = [wire EXCEPT ![Head(cwork[c]).s] = Append(@, Head(cwork[c]).m)]
          /\ env' = [env EXCEPT !.credit[Head(cwork[c]).s] = @ - 1]
          /\ cwork' = [cwork EXCEPT ![c] = Tail(@)]
    /\ UNCHANGED <<queue, qwork, sched, queues_, next_id_, qmwork, sender, receiver,
                   handler, hist, harnessVars>>

\* delete this
Sender_unsubscribed ==
    /\ Running
    /\ \E c \in Conns :
          /\ cwork[c] # <<>>
          /\ Head(cwork[c]).op = "unsubscribed"
          /\ sender' = [sender EXCEPT ![Head(cwork[c]).s].st = "deleted"]
          /\ cwork' = [cwork EXCEPT ![c] = Tail(@)]
    /\ UNCHANGED <<queue, qwork, sched, queues_, next_id_, qmwork, receiver, handler,
                   wire, env, hist, harnessVars>>

Receiver_boundQueue ==
    /\ Running
    /\ \E c \in Conns :
          /\ cwork[c] # <<>>
          /\ Head(cwork[c]).op = "Receiver::boundQueue"
          /\ LET w == Head(cwork[c])
                 r == w.x
             IN /\ receiver' = [receiver EXCEPT ![r].queue_ = w.q, ![r].messages_ = <<>>]
                /\ qwork' = Post(qwork, w.q, QueueMsgsWork(receiver[r].messages_))
          /\ cwork' = [cwork EXCEPT ![c] = Tail(@)]
    /\ UNCHANGED <<queue, sched, queues_, next_id_, qmwork, sender, handler, wire, env,
                   hist, harnessVars>>

\* --- Queue work

\* schedule_work(s, ...) for each item of out: s->add() appends it to the work
\* queue the Sender refers to.
RECURSIVE PostToSenders(_, _)
PostToSenders(cw, out) ==
    IF out = <<>> THEN cw
    ELSE PostToSenders(Post(cw, sender[Head(out).s].conn, <<Head(out)>>), Tail(out))

\* The (Sender, message) pairs of the sendMsg items of out.
RECURSIVE Sends(_)
Sends(out) ==
    IF out = <<>> THEN <<>>
    ELSE (IF Head(out).op = "sendMsg" THEN <<<<Head(out).s, Head(out).m>>>> ELSE <<>>)
         \o Sends(Tail(out))

\* Queue q has run the work item at the head of its work queue, with result r.
Ran(q, r) ==
    /\ queue' = [queue EXCEPT ![q] = r.q]
    /\ qwork' = [qwork EXCEPT ![q] = Tail(@)]
    /\ cwork' = PostToSenders(cwork, r.out)
    /\ sched' = [sched EXCEPT ![q] = @ \o Sends(r.out)]

Queue_queueMsg ==
    /\ Running
    /\ \E q \in DOMAIN queue :
          /\ qwork[q] # <<>>
          /\ Head(qwork[q]).op = "queueMsg"
          /\ Ran(q, queueMsg(queue[q], Head(qwork[q]).m))
    /\ UNCHANGED <<queues_, next_id_, qmwork, sender, receiver, handler, wire, env, hist,
                   harnessVars>>

Queue_flow ==
    /\ Running
    /\ \E q \in DOMAIN queue :
          /\ qwork[q] # <<>>
          /\ Head(qwork[q]).op = "flow"
          /\ LET w == Head(qwork[q])
             IN /\ Ran(q, flow(queue[q], w.s, w.c))
                /\ hist' = [hist EXCEPT ![w.s].qlog = Append(@, "flow"),
                                        ![w.s].firstFlow = IF @ = 0 THEN w.c ELSE @,
                                        ![w.s].backlog =
                                            IF hist[w.s].firstFlow = 0
                                            THEN Len(queue[q].messages_) ELSE @]
    /\ UNCHANGED <<queues_, next_id_, qmwork, sender, receiver, handler, wire, env,
                   harnessVars>>

Queue_subscribe ==
    /\ Running
    /\ \E q \in DOMAIN queue :
          /\ qwork[q] # <<>>
          /\ Head(qwork[q]).op = "subscribe"
          /\ LET w == Head(qwork[q])
             IN /\ Ran(q, subscribe(queue[q], w.s))
                /\ hist' = [hist EXCEPT ![w.s].qlog = Append(@, "subscribe")]
    /\ UNCHANGED <<queues_, next_id_, qmwork, sender, receiver, handler, wire, env,
                   harnessVars>>

Queue_unsubscribe ==
    /\ Running
    /\ \E q \in DOMAIN queue :
          /\ qwork[q] # <<>>
          /\ Head(qwork[q]).op = "unsubscribe"
          /\ LET w == Head(qwork[q])
             IN /\ Ran(q, unsubscribe(queue[q], w.s))
                /\ hist' = [hist EXCEPT ![w.s].qlog = Append(@, "unsubscribe")]
    /\ UNCHANGED <<queues_, next_id_, qmwork, sender, receiver, handler, wire, env,
                   harnessVars>>

Init ==
    /\ queue = <<>>
    /\ InitBroker
    /\ InitHarness
    /\ url = NoUrl

\* What the peers make the container call.
Callbacks ==
    \/ on_accept
    \/ on_sender_open
    \/ on_sendable
    \/ on_receiver_open
    \/ on_message
    \/ on_session_close
    \/ on_sender_close
    \/ on_transport_close

\* What the container runs from the work queues.
Work ==
    \/ QueueManager_findQueueSender
    \/ QueueManager_findQueueReceiver
    \/ Sender_boundQueue
    \/ Sender_sendMsg
    \/ Sender_unsubscribed
    \/ Receiver_boundQueue
    \/ Queue_queueMsg
    \/ Queue_flow
    \/ Queue_subscribe
    \/ Queue_unsubscribe

Next == Callbacks \/ Work

Spec == Init /\ [][Next]_vars

\* The broker with sender links only: no peer opens a receiver link, so no
\* message is published.
SenderCallbacks ==
    \/ on_accept
    \/ on_sender_open
    \/ on_sendable
    \/ on_session_close
    \/ on_sender_close
    \/ on_transport_close

SenderWork ==
    \/ QueueManager_findQueueSender
    \/ Sender_boundQueue
    \/ Sender_unsubscribed
    \/ Queue_flow
    \/ Queue_subscribe
    \/ Queue_unsubscribe

NextSenders == SenderCallbacks \/ SenderWork

\* The container runs every work item that has been added to a work queue.
FairSenderSpec ==
    /\ Init
    /\ [][NextSenders]_vars
    /\ WF_vars(QueueManager_findQueueSender)
    /\ WF_vars(Sender_boundQueue)
    /\ WF_vars(Sender_unsubscribed)
    /\ WF_vars(Queue_flow)
    /\ WF_vars(Queue_subscribe)
    /\ WF_vars(Queue_unsubscribe)

\* ------------------------------- SpecQM: one QueueManager, called directly
\* The connection whose work queue receives the boundQueue items.
TheConn == NewPtr(<<>>)

\* The names findQueue is called with: the empty name (a dynamic queue), two
\* plain names, and the name the first dynamic queue gets.
QMNames == {"", "a", "b", DynName(0)}

InitQM ==
    /\ queue = <<>>
    /\ InitBroker
    /\ InitHarness
    /\ url = NoUrl

Call_findQueueSender ==
    /\ Len(reqs) < MaxFinds
    /\ \E s \in Senders, qn \in QMNames :
          /\ findQueue(TheConn, qn, [op |-> "Sender::boundQueue", x |-> s])
          /\ reqs' = Append(reqs, qn)
    /\ UNCHANGED <<qmwork, sender, receiver, handler, wire, env, hist, nmsg, burst, cnt,
                   last, drv, url>>

Call_findQueueReceiver ==
    /\ Len(reqs) < MaxFinds
    /\ \E r \in Receivers, qn \in QMNames :
          /\ findQueue(TheConn, qn, [op |-> "Receiver::boundQueue", x |-> r])
          /\ reqs' = Append(reqs, qn)
    /\ UNCHANGED <<qmwork, sender, receiver, handler, wire, env, hist, nmsg, burst, cnt,
                   last, drv, url>>

NextQM ==
    \/ Call_findQueueSender
    \/ Call_findQueueReceiver

SpecQM == InitQM /\ [][NextQM]_vars

\* ------------------------------------------- SpecD: the driver pair of the tests
\* The conditions links and connections are closed with, and the ones the
\* transports are aborted with.
LinkConds == {NoCondition, error_condition("err", "foo bar")}
ConnConds == {NoCondition, error_condition("conn", "bad connection")}
AbortConds == {NoCondition, error_condition("oops", "driver failure"),
               error_condition("broken", "it broke")}

\* The engine takes one frame from the read buffer.
ReadFrame(d, fr) ==
    CASE fr.f = "open" ->
            [d EXCEPT !.rs = "active", !.events = Append(@, [e |-> "connection_open"])]
      [] fr.f = "attach" ->
            IF HasLink(d, fr.name)
            THEN [d EXCEPT !.links[LinkIndex(d, fr.name)].rs = "active",
                           !.events = Append(@, [e |-> "link_open", name |-> fr.name])]
            ELSE [d EXCEPT !.links = Append(@, [name |-> fr.name,
                                                role |-> IF fr.role = "sender"
                                                         THEN "receiver" ELSE "sender",
                                                mine |-> FALSE,
                                                ls |-> "uninit", rs |-> "active",
                                                lcond |-> NoCondition,
                                                error |-> NoCondition,
                                                called |-> FALSE, age |-> 0]),
                           !.events = Append(@, [e |-> "link_open", name |-> fr.name])]
      [] fr.f = "detach" ->
            [d EXCEPT !.links[LinkIndex(d, fr.name)].rs = "closed",
                      !.links[LinkIndex(d, fr.name)].error = fr.cond,
                      !.events = Append(@, [e |-> "link_close", name |-> fr.name])]
      [] fr.f = "close" ->
            [d EXCEPT !.rs = "closed", !.cerr = fr.cond,
                      !.events = Append(@, [e |-> "connection_close"])]

RECURSIVE ReadAll(_, _)
ReadAll(d, frames) ==
    IF frames = <<>> THEN d ELSE ReadAll(ReadFrame(d, Head(frames)), Tail(frames))

\* A frame is put into the write buffer while the connection is locally open.
Emit(d, fr) == IF d.ls = "active" THEN Append(d.out, fr) ELSE d.out

\* One event is dispatched: the handler's callback runs, then the endpoint is
\* opened or closed in reply when the handler has not done so.
HandleEvent(d, ev) ==
    CASE ev.e = "connection_open" -> ConnOpen(d)
      [] ev.e = "link_open" ->
            LET i == LinkIndex(d, ev.name)
                l == d.links[i]
                h1 == IF l.role = "sender" THEN on_sender_open_rec(d.h, l.name)
                      ELSE on_receiver_open_rec(d.h, l.name)
            IN IF l.ls = "uninit"
               THEN [d EXCEPT !.h = h1, !.links[i].ls = "active",
                              !.out = Emit(d, [f |-> "attach", name |-> l.name,
                                               role |-> l.role])]
               ELSE [d EXCEPT !.h = h1]
      [] ev.e = "link_close" ->
            LET i == LinkIndex(d, ev.name)
                l == d.links[i]
                h1 == IF Empty(l.error) THEN d.h ELSE on_error_rec(d.h, What(l.error))
            IN IF l.ls = "closed"
               THEN [d EXCEPT !.h = h1]
               ELSE [d EXCEPT !.h = h1, !.links[i].ls = "closed",
                              !.out = Emit(d, [f |-> "detach", name |-> l.name,
                                               cond |-> NoCondition])]
      [] ev.e = "connection_close" ->
            LET h1 == IF Empty(d.cerr) THEN d.h
                      ELSE on_connection_error_rec(d.h, What(d.cerr))
            IN IF d.ls = "active"
               THEN [d EXCEPT !.h = h1, !.ls = "closed",
                              !.out = Append(@, [f |-> "close", cond |-> NoCondition])]
               ELSE [d EXCEPT !.h = h1]
      [] ev.e = "transport_error" ->
            [d EXCEPT !.h = on_transport_error_rec(d.h, What(d.terr))]

RECURSIVE HandleAll(_, _)
HandleAll(d, events) ==
    IF events = <<>> THEN d ELSE HandleAll(HandleEvent(d, Head(events)), Tail(events))

\* The connection has reached its terminal state: the transport was aborted,
\* or the connection is closed both ways and nothing is left to write.
Finished(d) == d.aborted \/ (ConnClosed(d) /\ d.out = <<>>)

\* connection_driver::dispatch(): the pending events go to the handler; ret
\* is what it returns.
Dispatch(d) ==
    LET d1 == HandleAll([d EXCEPT !.events = <<>>], d.events)
    IN [d1 EXCEPT !.ret = IF Finished(d1) THEN "false" ELSE "true"]

\* connection_driver::disconnected(cond); after: the peer was aborted before.
Disconnected(d, cond, after) ==
    [d EXCEPT !.aborted = TRUE, !.acond = cond, !.ret = "none",
              !.terr = IF Empty(cond) THEN DefaultAbort
                       ELSE IF after THEN Aborted(cond) ELSE cond,
              !.events = Append(@, [e |-> "transport_error"])]

\* in_memory_driver::process for side x that does not throw: dispatch,
\* do_read (the whole stream fits the read buffer), do_write (the bytes are
\* inserted at the beginning of the stream), dispatch.
ProcessSide(v, x) ==
    LET rd == IF x = "a" THEN "ba" ELSE "ab"
        wr == IF x = "a" THEN "ab" ELSE "ba"
        d1 == Dispatch(v[x])
        d2 == ReadAll(d1, v[rd])
        d3 == Dispatch([d2 EXCEPT !.out = <<>>])
    IN [v EXCEPT ![x] = d3, ![rd] = <<>>, ![wr] = d2.out \o v[wr]]

\* One more process() call has been made: the age of every link and
\* connection that close() was called on goes up, to at most CloseRounds.
Older(n) == IF n < CloseRounds THEN n + 1 ELSE n
Aged(d) ==
    [d EXCEPT !.age = IF d.called THEN Older(@) ELSE @,
              !.links = [i \in 1..Len(d.links) |->
                            IF d.links[i].called
                            THEN [d.links[i] EXCEPT !.age = Older(@)]
                            ELSE d.links[i]]]

\* process() can be called: a.dispatch() does not return false.
CanProcess == ~Finished(Dispatch(drv.a))

\* driver_pair::process: a.process(); b.process(). b.process() throws when
\* b.dispatch() returns false.
D_process ==
    /\ CanProcess
    /\ \E v1 \in {ProcessSide(drv, "a")} :
       \E v2 \in {IF Finished(Dispatch(v1.b)) THEN [v1 EXCEPT !.b = Dispatch(v1.b)]
                   ELSE ProcessSide(v1, "b")} :
          drv' = [v2 EXCEPT !.a = Aged(@), !.b = Aged(@)]
    /\ drv' # drv
    /\ UNCHANGED <<queue, brokerVars, nmsg, burst, cnt, last, reqs, url>>

D_connection_open ==
    /\ drv.calls < MaxCalls
    /\ \E x \in Sides :
          /\ drv[x].ls = "uninit" /\ ~drv[x].aborted
          /\ drv' = [drv EXCEPT ![x] = ConnOpen(@), !.calls = @ + 1]
    /\ UNCHANGED <<queue, brokerVars, nmsg, burst, cnt, last, reqs, url>>

D_open_sender ==
    /\ drv.calls < MaxCalls
    /\ \E x \in Sides :
          /\ drv[x].ls = "active" /\ ~drv[x].aborted
          /\ Cardinality(Opened(drv[x])) < MaxLinks
          /\ drv' = [drv EXCEPT ![x] = OpenLink(@, "sender"), !.calls = @ + 1]
    /\ UNCHANGED <<queue, brokerVars, nmsg, burst, cnt, last, reqs, url>>

D_open_receiver ==
    /\ drv.calls < MaxCalls
    /\ \E x \in Sides :
          /\ drv[x].ls = "active" /\ ~drv[x].aborted
          /\ Cardinality(Opened(drv[x])) < MaxLinks
          /\ drv' = [drv EXCEPT ![x] = OpenLink(@, "receiver"), !.calls = @ + 1]
    /\ UNCHANGED <<queue, brokerVars, nmsg, burst, cnt, last, reqs, url>>

D_link_close ==
    /\ drv.calls < MaxCalls
    /\ \E x \in Sides, cond \in LinkConds :
          /\ drv[x].ls = "active" /\ ~drv[x].aborted
          /\ \E i \in 1..Len(drv[x].links) :
                /\ drv[x].links[i].ls = "active"
                /\ drv' = [drv EXCEPT ![x] = CloseLink(@, i, cond), !.calls = @ + 1]
    /\ UNCHANGED <<queue, brokerVars, nmsg, burst, cnt, last, reqs, url>>

D_connection_close ==
    /\ drv.calls < MaxCalls
    /\ \E x \in Sides, cond \in ConnConds :
          /\ drv[x].ls = "active" /\ ~drv[x].aborted
          /\ drv' = [drv EXCEPT ![x] = CloseConn(@, cond), !.calls = @ + 1]
    /\ UNCHANGED <<queue, brokerVars, nmsg, burst, cnt, last, reqs, url>>

\* disconnected(cond) on a driver whose connection is active.
D_disconnected ==
    /\ drv.calls < MaxCalls
    /\ \E x \in Sides, cond \in AbortConds :
          /\ ConnActive(drv[x]) /\ ~drv[x].aborted
          /\ drv' = [drv EXCEPT ![x] = Disconnected(@, cond, drv[Peer(x)].aborted), !.calls = @ + 1]
    /\ UNCHANGED <<queue, brokerVars, nmsg, burst, cnt, last, reqs, url>>

\* dispatch() called on a driver after disconnected().
D_dispatch ==
    /\ \E x \in Sides :
          /\ drv[x].aborted /\ drv[x].ret = "none"
          /\ drv' = [drv EXCEPT ![x] = Dispatch(@)]
    /\ UNCHANGED <<queue, brokerVars, nmsg, burst, cnt, last, reqs, url>>

InitD ==
    /\ queue = <<>>
    /\ InitBroker
    /\ InitHarness
    /\ url = NoUrl

NextD ==
    \/ D_process
    \/ D_connection_open
    \/ D_open_sender
    \/ D_open_receiver
    \/ D_link_close
    \/ D_connection_close
    \/ D_disconnected
    \/ D_dispatch

SpecD == InitD /\ [][NextD]_vars

\* ------------------------------- SpecCredit: senders that are sendable again
\* on_sendable runs up to MaxFlows times for a bound Sender; no link, session
\* or transport is closed.
on_sendable_again == on_sendable_upto(MaxFlows)

CreditCallbacks ==
    \/ on_accept
    \/ on_sender_open
    \/ on_sendable_again
    \/ on_receiver_open
    \/ on_message

CreditWork ==
    \/ QueueManager_findQueueSender
    \/ QueueManager_findQueueReceiver
    \/ Sender_boundQueue
    \/ Sender_sendMsg
    \/ Receiver_boundQueue
    \/ Queue_queueMsg
    \/ Queue_flow
    \/ Queue_subscribe

NextCredit == CreditCallbacks \/ CreditWork

SpecCredit == Init /\ [][NextCredit]_vars

\* ------------------------------------------------- SpecURL: url(str, defaults)
\* The parts the strings given to url() are written from: those of the
\* strings of TEST_CASE("parse URL"), in every combination.
UrlParts ==
    {c \in [scheme : {"", "amqp", "amqps"}, slashes : BOOLEAN, user : {"", "username"},
            password : {"", "password"}, host : {"", "host", "foo", "h"},
            colon : BOOLEAN, port : {"", "1234", "xyz", "port", "0"},
            path : {"", "path"}] :
        /\ c.slashes => c.scheme = ""
        /\ c.password # "" => c.user # ""
        /\ c.port # "" => c.colon}

InitURL ==
    /\ queue = <<>>
    /\ InitBroker
    /\ InitHarness
    /\ \E c \in UrlParts, defaults \in BOOLEAN :
          url = [str |-> UrlString(c), defaults |-> defaults, made |-> FALSE, from |-> c,
                 u |-> UrlOf("", "", "", "", "", "")]

\* url u(str, defaults)
U_url ==
    /\ ~url.made
    /\ url' = [url EXCEPT !.made = TRUE, !.u = url_parse(url.str, url.defaults)]
    /\ UNCHANGED <<queue, brokerVars, nmsg, burst, cnt, last, reqs, drv>>

NextURL == U_url

SpecURL == InitURL /\ [][NextURL]_vars

\* ------------------------------------------------------------------ claims

\* C1: round-robin fairness. Starting from an empty FIFO and N subscriptions
\* that each hold credit >= K, after every j*N successive queueMsg calls the
\* numbers of sendMsg items scheduled per Sender differ by at most 1, and
\* after K*N calls every Sender has been scheduled exactly K, wherever the
\* cursor stood at the start.
C1_RoundRobinFair ==
    burst.on =>
        LET D == DOMAIN queue[TheQ].subscriptions_
        IN /\ (burst.calls % burst.N = 0 =>
                  \A s, t \in D : cnt[s] - cnt[t] <= 1)
           /\ (burst.calls = burst.K * burst.N =>
                  \A s \in D : cnt[s] = burst.K)
           /\ \A s \in Subs \ D : cnt[s] = 0

\* A burst of K*N calls with K >= 2 and N >= 2 that started with the cursor on
\* a subscription other than the first has completed.
C1_Witness ==
    /\ burst.on
    /\ burst.K >= 2
    /\ burst.N >= 2
    /\ burst.calls = burst.K * burst.N
    /\ burst.start # End
    /\ burst.start # Begin(queue[TheQ].subscriptions_)

\* The dispatch loop as section 4.2 of the specification words it: the branch
\* without credit increments outOfCredit and advances the cursor.
RECURSIVE RefTryLoop(_, _, _)
RefTryLoop(q, outOfCredit, out) ==
    IF q.messages_ = <<>> \/ ~(outOfCredit < Cardinality(DOMAIN q.subscriptions_))
    THEN [q |-> q, out |-> out]
    ELSE LET cur == IF q.current_ = End THEN Begin(q.subscriptions_) ELSE q.current_
         IN IF q.subscriptions_[cur] > 0
            THEN RefTryLoop([q EXCEPT !.messages_ = Tail(q.messages_),
                                      !.subscriptions_ = [q.subscriptions_ EXCEPT ![cur] = @ - 1],
                                      !.current_ = Succ(q.subscriptions_, cur)],
                            outOfCredit,
                            Append(out, [op |-> "sendMsg", s |-> cur, m |-> Head(q.messages_)]))
            ELSE RefTryLoop([q EXCEPT !.current_ = Succ(q.subscriptions_, cur)],
                            outOfCredit + 1, out)

SameDispatch(q) ==
    LET code == tryToSend(q)
        ref  == RefTryLoop(q, 0, <<>>)
    IN /\ code.out = ref.out
       /\ code.q.subscriptions_ = ref.q.subscriptions_
       /\ code.q.current_ = ref.q.current_

\* C2: tryToSend is the dispatch algorithm of section 4.2 (the branch without
\* credit advances the cursor): on every Queue state in which queueMsg or flow
\* runs it, the code and the reference schedule the same (Sender, message)
\* pairs and end with the same credits and cursor.
C2_MatchesReference ==
    ~burst.on =>
        LET q == queue[TheQ]
        IN /\ SameDispatch([q EXCEPT !.messages_ = Append(@, nmsg + 1)])
           /\ \A s \in Subs, c \in 1..MaxCredit :
                 SameDispatch([q EXCEPT !.subscriptions_ = MapSet(@, s, c)])

\* No message is queued while a subscription holds credit.
Drained(q) ==
    \/ q.messages_ = <<>>
    \/ \A s \in DOMAIN q.subscriptions_ : q.subscriptions_[s] = 0

\* C3: work conservation. Whenever queueMsg or flow returns, the FIFO is empty
\* or every subscription has credit 0.
C3_WorkConserving ==
    last.op \in {"queueMsg", "flow"} => Drained(queue[TheQ])

\* The subscription a tryToSend that starts with cursor cur looks at first.
FirstLooked(q) ==
    IF q.current_ = End THEN Begin(q.subscriptions_) ELSE q.current_

\* C9: cursor validity. The cursor is end-of-map or a key of the map; an
\* unsubscribe(s) made while the cursor was on s leaves the cursor on the
\* least remaining key above s (end-of-map when there is none); and the first
\* Sender a following tryToSend serves, if it serves any, is the one under
\* that cursor.
C9_CursorValid ==
    LET q == queue[TheQ]
    IN /\ q.current_ \in (DOMAIN q.subscriptions_) \cup {End}
       /\ (last.op = "unsubscribe" /\ last.cur = last.s /\ last.s # End) =>
             /\ last.s \notin DOMAIN q.subscriptions_
             /\ q.current_ = Succ(q.subscriptions_, last.s)
       /\ LET r == queueMsg(q, nmsg + 1)
          IN r.out # <<>> => r.out[1].s = FirstLooked(q)

\* unsubscribe(s) has just erased the subscription under the cursor, which had
\* a successor in the map.
C9_Witness ==
    /\ last.op = "unsubscribe"
    /\ last.cur = last.s
    /\ last.s # End
    /\ queue[TheQ].current_ # End
    /\ queue[TheQ].current_ > last.s
    /\ queue[TheQ].messages_ # <<>>

\* ---------------------------------------------------- claims on the broker

\* The work items of work queue wq that name Sender s.
ItemsFor(wq, s) ==
    {i \in 1..Len(wq) :
        \/ wq[i].op \in {"sendMsg", "unsubscribed", "subscribe", "flow", "unsubscribe",
                         "findQueueSender"} /\ wq[i].s = s
        \/ wq[i].op = "Sender::boundQueue" /\ wq[i].x = s}

\* C4: Sender lifetime. Once a Sender has run unsubscribed() and is destroyed,
\* no work queue holds a work item that names it (so none is run on it) and
\* no Queue has it in its subscription map.
C4_SenderLifetime ==
    \A s \in Senders :
        sender[s].st = "deleted" =>
            /\ \A c \in Conns : ItemsFor(cwork[c], s) = {}
            /\ \A q \in DOMAIN queue :
                  /\ ItemsFor(qwork[q], s) = {}
                  /\ s \notin DOMAIN queue[q].subscriptions_
            /\ ItemsFor(qmwork, s) = {}

\* A Sender that was sent a message has been destroyed while another Sender
\* is still subscribed to a Queue.
C4_Witness ==
    \E s, t \in Senders :
        /\ sender[s].st = "deleted"
        /\ wire[s] # <<>>
        /\ \E q \in DOMAIN queue : t \in DOMAIN queue[q].subscriptions_

\* A Queue::unsubscribe for Sender s is on some Queue's work queue.
UnsubscribePending(qw, s) ==
    \E q \in DOMAIN qw : \E i \in 1..Len(qw[q]) :
        qw[q][i].op = "unsubscribe" /\ qw[q][i].s = s

\* C5: the handler posts a Queue::unsubscribe for every Sender it drops: in
\* on_session_close for every Sender of the closed session, in
\* on_transport_close for every Sender left in the senders map.
C5_UnsubscribePosted ==
    [][\A c \in Conns :
          /\ (handler[c].st = "alive" /\ handler'[c].st = "deleted") =>
                \A s \in handler[c].senders_ : UnsubscribePending(qwork', s)
          /\ (handler[c].st = "alive" /\ env'.ended[c] # env.ended[c]) =>
                \A s \in handler[c].senders_ \ handler'[c].senders_ :
                    UnsubscribePending(qwork', s)]_vars

\* C6: pre-binding credit. If on_sendable reported credit for a Sender before
\* its boundQueue ran, then once boundQueue has run the Queue eventually
\* processes a flow for that Sender, the first one it processes carries the
\* last credit reported, and boundQueue schedules that flow once.
C6_PendingCreditFlows ==
    /\ \A s \in Senders, c \in 1..MaxCredit :
          (sender[s].queue_ # Null /\ hist[s].lastUnbound = c) ~> (hist[s].firstFlow = c)
    /\ [](\A s \in Senders :
             /\ hist[s].boundFlows <= 1
             /\ (sender[s].queue_ # Null /\ hist[s].lastUnbound > 0) => hist[s].boundFlows = 1)

\* The Queue has processed the flow of a credit that was reported before the
\* Sender was bound.
C6_Witness ==
    \E s \in Senders :
        /\ hist[s].lastUnbound > 0
        /\ hist[s].boundFlows = 1
        /\ hist[s].firstFlow = hist[s].lastUnbound

\* C7: subscribe before flow. In the order in which the Queue processes the
\* work items of one Sender, a subscribe precedes every flow and no subscribe
\* follows a flow.
C7_SubscribeBeforeFlow ==
    \A s \in Senders :
        LET L == hist[s].qlog
        IN \A i \in 1..Len(L) :
              /\ L[i] = "flow" => \E j \in 1..(i - 1) : L[j] = "subscribe"
              /\ L[i] = "subscribe" => \A j \in 1..(i - 1) : L[j] # "flow"

\* The Queue has processed the subscribe and then the pending-credit flow of a
\* Sender.
C7_Witness ==
    \E s \in Senders :
        /\ hist[s].boundFlows = 1
        /\ Len(hist[s].qlog) >= 2
        /\ hist[s].qlog[1] = "subscribe"
        /\ hist[s].qlog[2] = "flow"

\* C8: binding precedes traffic. Work for a Sender from a Queue (sendMsg,
\* unsubscribed) exists only once the Sender's boundQueue has run; a Queue's
\* work queue and subscription map name a Sender, and its work queue holds a
\* Receiver's message, only if that endpoint has been bound to this Queue.
C8_BindingPrecedesTraffic ==
    /\ \A c \in Conns : \A i \in 1..Len(cwork[c]) :
          cwork[c][i].op \in {"sendMsg", "unsubscribed"} =>
              sender[cwork[c][i].s].queue_ # Null
    /\ \A s \in Senders : wire[s] # <<>> => sender[s].queue_ # Null
    /\ \A q \in DOMAIN queue :
          /\ \A i \in 1..Len(qwork[q]) :
                /\ qwork[q][i].op \in {"subscribe", "flow", "unsubscribe"} =>
                      sender[qwork[q][i].s].queue_ = q
                /\ qwork[q][i].op = "queueMsg" =>
                      receiver[qwork[q][i].m[1]].queue_ = q
          /\ \A s \in DOMAIN queue[q].subscriptions_ : sender[s].queue_ = q
          /\ \A i \in 1..Len(sched[q]) : sender[sched[q][i][1]].queue_ = q

\* A bound Sender has written a message to its link while work of a bound
\* Receiver is waiting at the Queue.
C8_Witness ==
    \E s \in Senders, q \in DOMAIN queue :
        /\ wire[s] # <<>>
        /\ sender[s].queue_ = q
        /\ \E i \in 1..Len(qwork[q]) : qwork[q][i].op = "queueMsg"

\* The messages of a sequence of (Sender, message) pairs.
Msgs(pairs) == [i \in 1..Len(pairs) |-> pairs[i][2]]

\* The messages of the queueMsg items of a work queue.
QueuedMsgs(wq) ==
    LET items == SelectSeq(wq, LAMBDA w : w.op = "queueMsg")
    IN [i \in 1..Len(items) |-> items[i].m]

\* The messages of Receiver r from its delivery to its scheduling to a Sender.
Pipeline(r) ==
    LET q == receiver[r].queue_
        atQueue == IF q = Null THEN <<>>
                   ELSE Msgs(sched[q]) \o queue[q].messages_ \o QueuedMsgs(qwork[q])
    IN SelectSeq(atQueue, LAMBDA m : m[1] = r) \o receiver[r].messages_

\* The messages scheduled to Sender s: written to the link or waiting as
\* sendMsg items on the connection's work queue.
ScheduledTo(s) ==
    LET items == SelectSeq(cwork[sender[s].conn],
                           LAMBDA w : w.op = "sendMsg" /\ w.s = s)
    IN wire[s] \o [i \in 1..Len(items) |-> items[i].m]

C10_Order ==
    /\ \A r \in Receivers :
          receiver[r].st # "none" =>
              Pipeline(r) = [i \in 1..env.delivered[r] |-> <<r, i>>]
    /\ \A s \in Senders :
          sender[s].queue_ # Null =>
              ScheduledTo(s) =
                  Msgs(SelectSeq(sched[sender[s].queue_], LAMBDA p : p[1] = s))

\* A Queue schedules a sendMsg only in a flow or when a subscription holds credit.
C10_StayQueued ==
    \A q \in DOMAIN queue :
        sched'[q] # sched[q] =>
            \/ Head(qwork[q]).op = "flow"
            \/ \E s \in DOMAIN queue[q].subscriptions_ : queue[q].subscriptions_[s] > 0

\* A flow of enough credit from the only subscriber empties the FIFO to it, in order.
C10_SingleSenderGetsAll ==
    \A q \in DOMAIN queue :
        (/\ qwork[q] # <<>>
         /\ Len(qwork'[q]) < Len(qwork[q])
         /\ Head(qwork[q]).op = "flow"
         /\ DOMAIN queue[q].subscriptions_ \subseteq {Head(qwork[q]).s}
         /\ Head(qwork[q]).c >= Len(queue[q].messages_))
        => /\ queue'[q].messages_ = <<>>
           /\ sched'[q] = sched[q] \o [i \in 1..Len(queue[q].messages_) |->
                                          <<Head(qwork[q]).s, queue[q].messages_[i]>>]

\* C10: publish before subscribe. The messages of one Receiver, buffered before
\* its boundQueue or not, reach the Queue and are scheduled in the order
\* received; they stay queued while no subscription holds credit; and a flow of
\* enough credit from a single subscriber schedules sendMsg to it for all the
\* queued messages in that order.
C10_PublishOrder ==
    /\ []C10_Order
    /\ [][C10_StayQueued]_vars
    /\ [][C10_SingleSenderGetsAll]_vars

\* A Sender whose first flow found every message of the link already queued
\* has written them all to its link.
C10_Witness ==
    \E s \in Senders :
        /\ hist[s].backlog = MaxMsgs
        /\ wire[s] = [i \in 1..MaxMsgs |-> <<1, i>>]

\* The boundQueue work items findQueue has scheduled, in the order of the calls.
Bound == cwork[TheConn]

\* C11: one Queue per name. Two findQueue calls are bound to the same Queue
\* object exactly when they are bound under the same name, a call with a
\* non-empty name is bound under that name, the Queue carries the name, and an
\* entry of the QueueManager's map is never removed or replaced.
C11_Bindings ==
    /\ Len(Bound) = Len(reqs)
    /\ \A i \in 1..Len(Bound) :
          /\ reqs[i] # "" => Bound[i].qn = reqs[i]
          /\ Bound[i].qn \in DOMAIN queues_
          /\ queues_[Bound[i].qn] = Bound[i].q
          /\ queue[Bound[i].q].name_ = Bound[i].qn
          /\ \A j \in 1..Len(Bound) : (Bound[i].qn = Bound[j].qn) <=> (Bound[i].q = Bound[j].q)

C11_EntriesStay ==
    \A n \in DOMAIN queues_ : n \in DOMAIN queues_' /\ queues_'[n] = queues_[n]

RECURSIVE EmptyBefore(_)
EmptyBefore(k) ==
    IF k = 0 THEN 0 ELSE EmptyBefore(k - 1) + (IF reqs[k] = "" THEN 1 ELSE 0)

\* C12: dynamic name uniqueness. The i-th call with an empty name (from 0) is
\* bound under "_dynamic_<i>", two such calls never get the same name, and
\* next_id_ counts the calls with an empty name only.
C12_DynamicNames ==
    /\ next_id_ = EmptyBefore(Len(reqs))
    /\ Len(Bound) = Len(reqs)
    /\ \A k \in 1..Len(reqs) :
          reqs[k] = "" =>
             /\ Bound[k].qn = "_dynamic_" \o ToString(EmptyBefore(k - 1))
             /\ \A j \in 1..(k - 1) : reqs[j] = "" => Bound[j].qn # Bound[k].qn

\* Two calls with an empty name, with a call with a plain name between them.
C12_Witness ==
    \E i, j, k \in 1..Len(reqs) :
        /\ i < j /\ j < k
        /\ reqs[i] = "" /\ reqs[j] = "a" /\ reqs[k] = ""
        /\ Bound[i].qn = "_dynamic_0" /\ Bound[k].qn = "_dynamic_1"

\* The Receivers that exist.
Allocated(rcv) == {r \in Receivers : rcv[r].st # "none"}

\* C13: shutdown sentinel. A step that is on_receiver_open for the target
\* address "shutdown" stops the container with ("shutdown", "stop broker"),
\* allocates no Receiver and posts nothing to the QueueManager; for any other
\* address it allocates exactly one Receiver, records it in receivers_, posts
\* exactly one findQueueReceiver for it and does not stop the container.
C13_ReceiverOpenStep ==
    \A a \in TargetAddrs :
        env'.opens[a] # env.opens[a] =>
            IF a = "shutdown"
            THEN /\ env'.stopped.on
                 /\ env'.stopped.cond.name = "shutdown"
                 /\ env'.stopped.cond.description = "stop broker"
                 /\ Allocated(receiver') = Allocated(receiver)
                 /\ \A c \in Conns : handler'[c].receivers_ = handler[c].receivers_
                 /\ qmwork' = qmwork
            ELSE /\ ~env'.stopped.on
                 /\ \E r \in Receivers :
                       /\ r \notin Allocated(receiver)
                       /\ Allocated(receiver') = Allocated(receiver) \cup {r}
                       /\ \E c \in Conns :
                             /\ handler'[c].receivers_ = handler[c].receivers_ \cup {r}
                             /\ \A d \in Conns \ {c} :
                                   handler'[d].receivers_ = handler[d].receivers_
                       /\ qmwork' = Append(qmwork, [op |-> "findQueueReceiver", r |-> r,
                                                     qn |-> a])

C13_ShutdownSentinel == [][C13_ReceiverOpenStep]_vars

\* The container has been stopped by a receiver link to "shutdown" after
\* another receiver link was opened and got its Receiver.
C13_Witness ==
    /\ env.stopped.on
    /\ env.opens["shutdown"] = 1
    /\ env.opens["q"] = 1
    /\ Allocated(receiver) # {}

\* C14: driver disconnect. Once dispatch() has been called after
\* disconnected(cond) on a driver whose connection was active, it has returned
\* false, the connection is not closed and has no error, the transport error
\* has cond's name and description (the description possibly followed by
\* " (connection aborted)"), and the handler holds exactly one transport error,
\* the text of that error, and no connection error.
C14_DriverDisconnect ==
    \A x \in Sides :
        LET d == drv[x]
        IN (d.aborted /\ d.ret # "none") =>
              /\ d.ret = "false"
              /\ ~(d.ls = "closed" /\ d.rs = "closed")
              /\ d.cerr.name = "" /\ d.cerr.description = ""
              /\ Len(d.h.transport_errors) = 1
              /\ Len(d.h.connection_errors) = 0
              /\ d.h.transport_errors[1] = d.terr.name \o ": " \o d.terr.description
              /\ (d.acond.name # "" =>
                    /\ d.terr.name = d.acond.name
                    /\ d.terr.description \in
                          {d.acond.description,
                           d.acond.description \o " (connection aborted)"})

\* Both transports were aborted, a before b, and each side has dispatched.
C14_Witness ==
    /\ drv.a.aborted /\ drv.a.ret = "false"
    /\ drv.b.aborted /\ drv.b.ret = "false"
    /\ drv.a.h.transport_errors = <<"oops: driver failure">>
    /\ drv.b.h.transport_errors = <<"broken: it broke (connection aborted)">>

\* close() was called on the link named n on side x and its peer end is not (yet)
\* closed with the condition it was closed with.
LinkClosePending(x, n) ==
    /\ drv[x].links[LinkIndex(drv[x], n)].called
    /\ ~(/\ HasLink(drv[Peer(x)], n)
         /\ LET pl == drv[Peer(x)].links[LinkIndex(drv[Peer(x)], n)]
            IN /\ pl.ls = "closed" /\ pl.rs = "closed"
               /\ pl.error = drv[x].links[LinkIndex(drv[x], n)].lcond)

\* close() was called on the connection on side x and the peer's connection is not (yet)
\* closed with the condition it was closed with.
ConnClosePending(x) ==
    /\ drv[x].called
    /\ ~(/\ drv[Peer(x)].ls = "closed" /\ drv[Peer(x)].rs = "closed"
         /\ drv[Peer(x)].cerr = drv[x].lcond)

\* What the peer of a closing side holds once the close has reached it: the
\* name and description given to close(), the text "<name>: <description>",
\* an empty error for an empty condition, and one recorded connection error
\* for a connection closed with a condition (none for an empty condition).
C15_PeerError ==
    \A x \in Sides :
        LET d == drv[x]
            p == drv[Peer(x)]
        IN /\ \A i \in 1..Len(d.links) :
                 d.links[i].rs = "closed" =>
                    LET l == d.links[i]
                        pl == p.links[LinkIndex(p, l.name)]
                    IN /\ pl.ls = "closed"
                       /\ l.error.name = pl.lcond.name
                       /\ l.error.description = pl.lcond.description
                       /\ Empty(l.error) <=> (pl.lcond.name = "" /\ pl.lcond.description = "")
                       /\ pl.lcond.name # "" =>
                             What(l.error) = pl.lcond.name \o ": " \o pl.lcond.description
           /\ d.rs = "closed" =>
                 /\ p.ls = "closed"
                 /\ d.cerr.name = p.lcond.name
                 /\ d.cerr.description = p.lcond.description
                 /\ d.h.connection_errors =
                       IF p.lcond.name = "" /\ p.lcond.description = "" THEN <<>>
                       ELSE <<p.lcond.name \o ": " \o p.lcond.description>>

\* While no transport is aborted, a close that has not reached the peer has
\* seen fewer than CloseRounds calls of process(), and process() can be called.
C15_Reaches ==
    (~drv.a.aborted /\ ~drv.b.aborted) =>
        \A x \in Sides :
            /\ ConnClosePending(x) => (drv[x].age < CloseRounds /\ CanProcess)
            /\ \A i \in 1..Len(drv[x].links) :
                  LinkClosePending(x, drv[x].links[i].name) =>
                     (drv[x].links[i].age < CloseRounds /\ CanProcess)

\* C15: close propagation. While no transport is aborted, a link or connection
\* closed on one side becomes closed on the peer, with the condition given to
\* close() as its error, within CloseRounds calls of process(); the peer's
\* error has the same name and description and the text
\* "<name>: <description>", is empty for an empty condition, and a connection
\* closed with a condition gives the peer's handler exactly one connection error.
C15_ClosePropagation == C15_PeerError /\ C15_Reaches

\* b's end of a link that a closed with ("err", "foo bar") is closed with that
\* error, and b's connection is closed with ("conn", "bad connection").
C15_Witness ==
    /\ \E i \in 1..Len(drv.b.links) :
          /\ LinkClosed(drv.b.links[i])
          /\ drv.b.links[i].error = error_condition("err", "foo bar")
          /\ What(drv.b.links[i].error) = "err: foo bar"
    /\ ConnClosed(drv.b)
    /\ drv.b.h.connection_errors = <<"conn: bad connection">>

\* The links of d that d itself opened, in the order it opened them.
OpenedInOrder(d) == SelectSeq(d.links, LAMBDA l : l.mine)

\* The names the handler of d has recorded for links of the given role.
Recorded(d, role) == IF role = "sender" THEN d.h.senders ELSE d.h.receivers

OtherRole(role) == IF role = "sender" THEN "receiver" ELSE "sender"

\* C16: link naming. The k-th link a side opens, sender or receiver, has the
\* k-th name of that side's namer, the namer has advanced once per link the
\* side opened and not for the links its peer opened, no two links of a
\* connection share a name, and a link the peer has seen carries the same
\* name there: the peer's end and the peer's handler record have the opener's
\* name with the opposite role.
C16_LinkNaming ==
    \A x \in Sides :
        LET d == drv[x]
            p == drv[Peer(x)]
            mine == OpenedInOrder(d)
        IN /\ d.name = FirstName[x] + Len(mine)
           /\ \A k \in 1..Len(mine) : mine[k].name = CharTable[FirstName[x] + k - 1]
           /\ \A i, j \in 1..Len(d.links) : d.links[i].name = d.links[j].name => i = j
           /\ \A i \in 1..Len(d.links) :
                 LET l == d.links[i]
                 IN IF l.mine
                    THEN l.rs # "uninit" =>
                            /\ \E j \in 1..Len(p.links) :
                                  /\ p.links[j].name = l.name
                                  /\ ~p.links[j].mine
                                  /\ p.links[j].role = OtherRole(l.role)
                            /\ \E j \in 1..Len(Recorded(p, OtherRole(l.role))) :
                                  Recorded(p, OtherRole(l.role))[j] = l.name
                    ELSE \E j \in 1..Len(p.links) :
                            /\ p.links[j].name = l.name
                            /\ p.links[j].mine
                            /\ p.links[j].role = OtherRole(l.role)

\* a opened a sender and then a receiver, named "x" and "y" on both sides, and
\* b opened a link named "b" on both sides.
C16_Witness ==
    /\ Len(OpenedInOrder(drv.a)) = 2
    /\ OpenedInOrder(drv.a)[1].name = "x" /\ OpenedInOrder(drv.a)[1].role = "sender"
    /\ OpenedInOrder(drv.a)[2].name = "y" /\ OpenedInOrder(drv.a)[2].role = "receiver"
    /\ drv.b.h.receivers = <<"x">> /\ drv.b.h.senders = <<"y">>
    /\ Len(OpenedInOrder(drv.b)) = 1
    /\ OpenedInOrder(drv.b)[1].name = "b"
    /\ HasLink(drv.a, "b") /\ ~drv.a.links[LinkIndex(drv.a, "b")].mine
    /\ drv.b.name = FirstName.b + 1

\* C17: URL defaulting. A url made with defaults on has scheme "amqp" when the
\* string has none, host "localhost" when it has none and the (possibly
\* defaulted) scheme as port when it has none; made with defaults off, every
\* absent part is the empty string. In both cases the parts that are present
\* come back unchanged, user, password and path are empty when absent, a
\* leading "//" changes nothing, and the strings of TEST_CASE("parse URL")
\* give the accessors expected there.
C17_UrlDefaulting ==
    url.made =>
        LET c == url.from
            scheme == IF c.scheme = "" /\ url.defaults THEN "amqp" ELSE c.scheme
        IN /\ url.u.scheme = scheme
           /\ url.u.user = c.user
           /\ url.u.password = c.password
           /\ url.u.host = IF c.host = "" /\ url.defaults THEN "localhost" ELSE c.host
           /\ url.u.port = IF c.port = "" /\ url.defaults THEN scheme ELSE c.port
           /\ url.u.path = c.path
           /\ \A t \in parse_URL :
                 (t.str = url.str /\ t.defaults = url.defaults) => url.u = t.u

\* url("amqps://host") has been made: its port is "amqps".
C17_Witness ==
    /\ url.made /\ url.defaults
    /\ url.str = <<"amqps", ":", "/", "/", "host">>
    /\ url.u = UrlOf("amqps", "", "", "host", "amqps", "")

\* The sendMsg work items scheduled to Sender s that have not run: the
\* messages a Queue has dispatched to s and that are not yet written to the link.
Unwritten(s) ==
    Len(SelectSeq(cwork[sender[s].conn], LAMBDA w : w.op = "sendMsg" /\ w.s = s))

\* C18: credit is respected end to end. The sendMsg work items scheduled to a
\* Sender and not yet written to its link are never more than the credit its
\* link holds.
C18_CreditRespected ==
    \A s \in Senders : sender[s].st # "none" => Unwritten(s) <= env.credit[s]

\* No work item is waiting on any work queue.
AllDrained ==
    /\ qmwork = <<>>
    /\ \A c \in Conns : cwork[c] = <<>>
    /\ \A q \in DOMAIN queue : qwork[q] = <<>>

\* C19: no stale subscriber. Once on_transport_close has run for a connection
\* and every work queue has drained, no Sender created by that connection is
\* in the subscription map of any Queue.
C19_NoStaleSubscriber ==
    \A c \in Conns :
        (handler[c].st = "deleted" /\ AllDrained) =>
            \A s \in Senders :
                (sender[s].st # "none" /\ sender[s].conn = c) =>
                    \A q \in DOMAIN queue : s \notin DOMAIN queue[q].subscriptions_

\* The credit the Queue holds for Sender s: none when s is not in the map.
CreditOf(q, s) == IF s \in DOMAIN q.subscriptions_ THEN q.subscriptions_[s] ELSE 0

\* Every subscription's credit is >= 0.
C20_NonNegative ==
    \A s \in DOMAIN queue[TheQ].subscriptions_ : queue[TheQ].subscriptions_[s] >= 0

\* Since the latest flow for s the Queue has scheduled at most the credit that
\* flow set.
C20_WithinGrant == \A s \in Subs : last.sent[s] <= last.granted[s]

\* A call on the Queue schedules to Sender s no more sendMsg than the credit s
\* holds when the dispatching starts (the credit a flow for s has just set, 0
\* for a Sender just subscribed or not in the map), only if s is in the map,
\* and leaves s with that credit less one for each sendMsg scheduled.
C20_Dispatch ==
    (queue' # queue \/ last' # last) =>
        \A s \in Subs :
            LET n == CountFor(last'.out, s)
                before == IF last'.s = s /\ last'.op = "flow" THEN last'.granted[s]
                          ELSE IF last'.s = s /\ last'.op = "subscribe" THEN 0
                          ELSE CreditOf(queue[TheQ], s)
                map == queue'[TheQ].subscriptions_
            IN /\ n <= before
               /\ n > 0 => s \in DOMAIN map
               /\ s \in DOMAIN map => map[s] = before - n

\* C20: credit accounting in the Queue. Every subscription's credit is >= 0;
\* sendMsg is scheduled only to a Sender that is in the subscription map and
\* holds credit; each sendMsg scheduled takes exactly 1 from that Sender's
\* credit; between two flow calls for s at most the credit set by the earlier
\* one is scheduled to s.
C20_CreditAccounting ==
    /\ []C20_NonNegative
    /\ []C20_WithinGrant
    /\ [][C20_Dispatch]_vars

\* A flow set credit 2 for a Sender, and a later queueMsg scheduled the second
\* sendMsg to it, which left it with credit 0.
C20_Witness ==
    \E s \in Subs :
        /\ last.op = "queueMsg"
        /\ CountFor(last.out, s) = 1
        /\ last.granted[s] = 2
        /\ last.sent[s] = 2
        /\ CreditOf(queue[TheQ], s) = 0
        /\ s \in DOMAIN queue[TheQ].subscriptions_

\* C21: single delivery and conservation inside a Queue. The messages passed
\* to queueMsg so far (1..nmsg, in arrival order) are the messages a sendMsg
\* has been scheduled for, followed by the FIFO: each is either in the FIFO,
\* in arrival order, or was scheduled once, to one Sender; none is duplicated
\* or dropped, and the messages scheduled are those that arrived first.
C21_SingleDelivery ==
    /\ [i \in 1..Len(last.scheduled) |-> last.scheduled[i][2]] \o queue[TheQ].messages_
          = [i \in 1..nmsg |-> i]
    /\ \A i \in 1..Len(last.scheduled) : last.scheduled[i][1] \in Subs

\* Three messages were passed to queueMsg: the first two were scheduled to
\* two different Senders, the third is in the FIFO.
C21_Witness ==
    /\ nmsg = 3
    /\ Len(last.scheduled) = 2
    /\ last.scheduled[1][1] # last.scheduled[2][1]
    /\ queue[TheQ].messages_ = <<3>>

\* The Queue::unsubscribe work items posted for Sender s: those waiting on a
\* Queue's work queue and those a Queue has run.
UnsubscribesPosted(s) ==
    Cardinality(UNION {{<<q, i>> : i \in {j \in 1..Len(qwork[q]) :
                                              /\ qwork[q][j].op = "unsubscribe"
                                              /\ qwork[q][j].s = s}} :
                       q \in DOMAIN qwork})
    + Len(SelectSeq(hist[s].qlog, LAMBDA e : e = "unsubscribe"))

\* The unsubscribed() calls for Sender s: those waiting on a connection's work
\* queue and the one that has run (delete this).
UnsubscribedCalls(s) ==
    Len(SelectSeq(cwork[sender[s].conn], LAMBDA w : w.op = "unsubscribed" /\ w.s = s))
    + (IF sender[s].st = "deleted" THEN 1 ELSE 0)

\* C22: at most one destruction per Sender. Whatever on_sender_close,
\* on_session_close and on_transport_close callbacks a connection gets, at
\* most one Queue::unsubscribe is posted for a Sender, and at most one
\* unsubscribed() is scheduled for it or has run.
C22_OneDestruction ==
    \A s \in Senders :
        sender[s].st # "none" =>
            /\ UnsubscribesPosted(s) <= 1
            /\ UnsubscribedCalls(s) <= 1

\* A Sender was destroyed after its link and its session were closed and the
\* transport was closed as well: one unsubscribe was posted for it.
C22_Witness ==
    \E s \in Senders :
        /\ sender[s].st = "deleted"
        /\ handler[sender[s].conn].st = "deleted"
        /\ sender[s].session \in env.ended[sender[s].conn]
        /\ UnsubscribesPosted(s) = 1

\* The messages on_message has delivered for Receiver r, in order.
Delivered(r) == [i \in 1..env.delivered[r] |-> <<r, i>>]

\* A Receiver that is not bound holds every message delivered to it, in
\* order; a bound Receiver holds none.
C23_Buffered ==
    \A r \in Receivers :
        receiver[r].st # "none" =>
            receiver[r].messages_ = IF receiver[r].queue_ = Null THEN Delivered(r) ELSE <<>>

\* on_message for a Receiver that is not bound posts nothing; for a bound one
\* it posts one queueMsg, for the new message, to its Queue. boundQueue posts
\* one queueMsg per buffered message, front first, to the Queue bound.
C23_Step ==
    \A r \in Receivers :
        /\ (receiver[r].st # "none" /\ env'.delivered[r] # env.delivered[r]) =>
              IF receiver[r].queue_ = Null
              THEN qwork' = qwork
              ELSE qwork' = [qwork EXCEPT ![receiver[r].queue_] =
                                Append(@, [op |-> "queueMsg",
                                           m |-> <<r, env'.delivered[r]>>])]
        /\ (receiver[r].st # "none" /\ receiver[r].queue_ = Null
                                     /\ receiver'[r].queue_ # Null) =>
              qwork' = [qwork EXCEPT ![receiver'[r].queue_] =
                           @ \o [i \in 1..Len(receiver[r].messages_) |->
                                    [op |-> "queueMsg", m |-> receiver[r].messages_[i]]]]

\* C23: Receiver buffering. Until boundQueue has run, the messages on_message
\* delivers stay in the Receiver's FIFO and no queueMsg is posted; boundQueue
\* posts one queueMsg per buffered message, in FIFO order, and empties the
\* FIFO; afterwards each on_message posts exactly one queueMsg, for the new
\* message, and leaves the FIFO empty.
C23_ReceiverBuffering == []C23_Buffered /\ [][C23_Step]_vars

\* Two messages are buffered in a Receiver that is not bound yet.
C23_Witness ==
    \E r \in Receivers :
        /\ receiver[r].st # "none"
        /\ receiver[r].queue_ = Null
        /\ receiver[r].messages_ = <<<<r, 1>>, <<r, 2>>>>

\* C24: dynamic queues are fresh. A findQueue call with an empty name is bound
\* to a Queue that no earlier call was bound to: its "_dynamic_<n>" name was
\* not in the QueueManager's map, so a new Queue was constructed for it.
C24_DynamicFresh ==
    \A k \in 1..Len(Bound) :
        reqs[k] = "" => \A j \in 1..(k - 1) : Bound[j].q # Bound[k].q

\* The Queue states tryToSend can be entered with from the current state: in
\* queueMsg, after the push_back, and in flow, after the credit is set.
LoopEntries ==
    {[queue[TheQ] EXCEPT !.messages_ = Append(@, nmsg + 1)]}
    \cup {[queue[TheQ] EXCEPT !.subscriptions_ = MapSet(@, s, c)] :
              s \in Subs, c \in 1..MaxCredit}

\* The cursors the loop of tryToSend reads current_->second through, when
\* entered with Queue state q and outOfCredit.
RECURSIVE LoopCursors(_, _)
LoopCursors(q, outOfCredit) ==
    IF q.messages_ = <<>> \/ ~(outOfCredit < Cardinality(DOMAIN q.subscriptions_))
    THEN {}
    ELSE LET cur == IF q.current_ = End THEN Begin(q.subscriptions_) ELSE q.current_
         IN {cur} \cup
            (IF cur \notin DOMAIN q.subscriptions_ THEN {}
             ELSE IF q.subscriptions_[cur] > 0 THEN LoopCursors(SendBranch(q, cur), outOfCredit)
             ELSE LoopCursors(NoCreditBranch(q, cur), outOfCredit + 1))

\* C25: tryToSend terminates. Entered with m queued messages and n
\* subscriptions, from any state the Queue can be in (n = 0 and a cursor at
\* end-of-map included), the loop reads only through cursors that are on an
\* entry of the map, never through end-of-map, and returns after at most
\* m + n iterations.
C25_Terminates ==
    \A q \in LoopEntries :
        /\ LoopCursors(q, 0) \subseteq DOMAIN q.subscriptions_
        /\ tryToSend(q).iters <= Len(q.messages_) + Cardinality(DOMAIN q.subscriptions_)

\* A flow that found the cursor at end-of-map scheduled a sendMsg, ran out of
\* credit and returned with a message still queued.
C25_Witness ==
    /\ last.op = "flow"
    /\ last.cur = End
    /\ last.out # <<>>
    /\ queue[TheQ].messages_ # <<>>
====
